---- MODULE Spec2Model ----
(***************************************************************************)
(* UniFi device tracker (homeassistant/components/device_tracker/unifi.py). *)
(*                                                                         *)
(* A UniFiDeviceScanner is constructed once, then any number of threads    *)
(* call scan_devices and get_device_name on it.  _update_info is wrapped   *)
(* by the Throttle decorator of homeassistant.util, which is not part of   *)
(* the sources at hand: its behaviour (ThrottleDue, ThrottleStamp) follows *)
(* the description of the throttled refresh in the specification.          *)
(***************************************************************************)
EXTENDS Integers, Sequences, FiniteSets

\* ------------------------------------------------------------ constants

\* MIN_TIME_BETWEEN_SCANS = timedelta(seconds=5)
MIN_TIME_BETWEEN_SCANS == 5

\* the literal of `device['last_seen'] > time() - 10`
STALE_WINDOW == 10

\* ---------------------------------------------------------------- bounds

\* the clock runs from 0 to MaxTime
MaxTime == 7

\* no scan_devices call starts once MaxCalls upstream calls were made
MaxCalls == 3

\* the threads that share the scanner; thread 1 constructs it
Threads == {1, 2}

NoThread == 0

\* ------------------------------------------------------- data and helpers

\* one client record of the controller; gen names the get_clients call that
\* produced it (history, not read by the program)
Device(mac, name, seen, g) ==
    [mac |-> mac, name |-> name, last_seen |-> seen, gen |-> g]

\* the name of a record that has no 'name' key
AbsentName == "<absent>"

\* what get_clients can answer at time t, as its g-th invocation
NoneResult == [kind |-> "none", items |-> <<>>]

RaiseResult == [kind |-> "raise", items |-> <<>>]

ListResult(items) == [kind |-> "list", items |-> items]

Payloads(t, g) ==
    { NoneResult,
      ListResult(<<>>),
      ListResult(<<Device("A", "Alice", t - 3, g), Device("B", "Bob", t - 15, g)>>),
      ListResult(<<Device("C", AbsentName, t - 3, g)>>) }

\* `x or []`
OrEmpty(r) == IF r.kind = "list" /\ Len(r.items) > 0 THEN r.items ELSE <<>>

\* variant: the cache is emptied before the call, so a raising call loses it
UpdateResultsClearing(old, r) == IF r.kind = "raise" THEN <<>> ELSE OrEmpty(r)

\* variant: the answer is added to the cache record by record
UpdateResultsMerging(old, r) == IF r.kind = "raise" THEN old ELSE old \o OrEmpty(r)

\* variant: an empty answer is not stored
UpdateResultsKeepOnEmpty(old, r) ==
    IF r.kind = "raise" \/ OrEmpty(r) = <<>> THEN old ELSE OrEmpty(r)

\* `self.last_results = self._controller.get_clients() or []`: the right-hand
\* side is evaluated first, so a raising call assigns nothing
UpdateResults(old, r) == IF r.kind = "raise" THEN old ELSE OrEmpty(r)

\* variant: get_clients is evaluated once for the test and once for the value
InvokeTwice(n) == n + 2

\* one evaluation of `self._controller.get_clients()` per refresh
Invoke(n) == n + 1

\* variant: the test of success_init is missing
EarlyReturnNever(si) == FALSE

\* `if not self.success_init: return`
EarlyReturn(si) == ~si

\* variant: success_init is set before the login is tried
InitSucceedsBeforeLogin(kind) == kind # "import_fail"

\* the import and Controller(...) both succeed
InitSucceeds(kind) == kind = "ok"

\* variant: __init__ leaves the first refresh to the first scan
CtorRefreshesNever(si) == FALSE

\* `if self.success_init: self._update_info()` of __init__
CtorRefreshes(si) == si

\* variant: the comparison is not strict
IsPresentOrEqual(device, t) == device.last_seen >= t - STALE_WINDOW

\* `device['last_seen'] > time() - 10`
IsPresent(device, t) == device.last_seen > t - STALE_WINDOW

\* variant: every call makes a lock of its own
CanEnterAlways(holder) == TRUE

\* `with self.lock:` is entered only when no thread holds the lock
CanEnter(holder) == holder = NoThread

\* variant: the generator looks the cache up again at every step
GenSourceLive(snapshot, cache) == cache

\* the list a generator iterates: `self.last_results` is the outermost
\* iterable of the generator expression, evaluated once, when scan_devices
\* makes the generator
GenSource(snapshot, cache) == snapshot

\* variant: acquire and release without try/finally
LockAfterBlockNoFinally(holder, r) == IF r.kind = "raise" THEN holder ELSE NoThread

\* the lock when a thread leaves the `with self.lock:` block, normally (r an
\* answer) or by an exception (r a raise)
LockAfterBlock(holder, r) == NoThread

\* the last-refresh instant: <<>> before the first refresh, <<t>> after
NeverRefreshed == <<>>

\* the throttle lets the call through: never refreshed, or at least the
\* minimum interval since the last refresh
ThrottleDue(last, t) ==
    \/ last = NeverRefreshed
    \/ ~(t - last[1] < MIN_TIME_BETWEEN_SCANS)

\* ---------------------------------------------------------------- state

VARIABLES
    now,                \* time()
    initKind,           \* what construction meets: "ok", "import_fail", "auth_fail"
    constructed,        \* "no", "yes", "raised"
    success_init,       \* self.success_init
    last_results,       \* self.last_results
    lock,               \* holder of self.lock, or NoThread
    lastRefreshInstant, \* the throttle's last-refresh instant
    pc,                 \* position of each thread
    inInit,             \* thread 1 runs _update_info from __init__
    snap,               \* the list a thread's generator iterates
    idx,                \* how many of its elements the generator has visited
    out,                \* the MACs the generator has produced
    outcome,            \* a thread's latest call: "none"; of scan_devices
                        \* "running", "returned", "raised"; of
                        \* get_device_name "named"
    nameRes,            \* what a thread's latest call gave, if get_device_name
    nameDue,            \* history: the throttle would have let a refresh
                        \* through when that get_device_name was made
    calls,              \* history: number of get_clients invocations
    lastInvoke,         \* history: instant of the last get_clients invocation
    lastPayload,        \* history: how the last completed get_clients ended
    callers,            \* the threads that call the scanner's methods
    callStart,          \* history, single caller: start of its latest call, if
                        \* scan_devices
    callN,              \* history: get_clients invocations of a thread's latest call
    pairN,              \* history, single caller: invocations of the call before,
                        \* if that began < 5 s before the latest
    dueAtStart,         \* history: the call began >= 5 s after the last refresh
    prevFailed,         \* history: the thread's scan_devices before this one raised
    cacheGen,           \* history: the get_clients invocation whose answer is
                        \* the cache, 0 before the first
    ownGen              \* history: the invocation a thread's scan_devices made
                        \* and got an answer from, until that call returns

prog == <<now, initKind, constructed, success_init, last_results, lock,
          lastRefreshInstant, pc, inInit>>

gens == <<snap, idx, out>>

hist == <<calls, lastInvoke, lastPayload, callers, callStart, callN, pairN,
          dueAtStart, prevFailed, cacheGen, ownGen>>

vars == <<prog, gens, outcome, nameRes, nameDue, hist>>

\* `next(device['name'] for device in self.last_results if device['mac'] == mac)`
\* with StopIteration turned into None
NotFound == "None"

\* the KeyError of device['name'], which get_device_name does not catch
KeyErrorRaised == "KeyError"

\* `device['name']`
NameOf(device) == IF device.name = AbsentName THEN KeyErrorRaised ELSE device.name

\* variant: a miss lets the StopIteration of next() through
FirstNameUncaught(results, mac) ==
    LET hits == {i \in 1..Len(results) : results[i].mac = mac}
    IN  IF hits = {} THEN "StopIteration"
        ELSE NameOf(results[CHOOSE i \in hits : \A j \in hits : i <= j])

\* variant: the lookup skips the records scan_devices would skip
FirstNameFresh(results, mac) ==
    LET hits == {i \in 1..Len(results) :
                    results[i].mac = mac /\ IsPresent(results[i], now)}
    IN  IF hits = {} THEN NotFound
        ELSE NameOf(results[CHOOSE i \in hits : \A j \in hits : i <= j])

RECURSIVE FirstName(_, _)
FirstName(results, mac) ==
    IF results = <<>> THEN NotFound
    ELSE IF Head(results).mac = mac THEN NameOf(Head(results))
    ELSE FirstName(Tail(results), mac)

\* the thread's latest call is not get_device_name
NoLookup == "(no lookup)"

\* variant: get_device_name refreshes before it looks
LookupCallsRefreshing(n) == n + 1

\* get_device_name makes no call of _update_info or get_clients
LookupCalls(n) == n

InitKinds == {"ok", "import_fail", "auth_fail"}

Macs == {"A", "B", "C"}

InitWith(cs) ==
    /\ callers = cs
    /\ now = 0
    /\ initKind \in InitKinds
    /\ constructed = "no"
    /\ success_init = FALSE
    /\ last_results = <<>>
    /\ lock = NoThread
    /\ lastRefreshInstant = NeverRefreshed
    /\ pc = [t \in Threads |-> IF t = 1 THEN "new" ELSE "idle"]
    /\ inInit = FALSE
    /\ snap = [t \in Threads |-> <<>>]
    /\ idx = [t \in Threads |-> 0]
    /\ out = [t \in Threads |-> <<>>]
    /\ outcome = [t \in Threads |-> "none"]
    /\ nameRes = [t \in Threads |-> NoLookup]
    /\ nameDue = [t \in Threads |-> FALSE]
    /\ calls = 0
    /\ lastInvoke = <<>>
    /\ lastPayload = NoneResult
    /\ callStart = <<>>
    /\ callN = [t \in Threads |-> 0]
    /\ pairN = 0
    /\ dueAtStart = [t \in Threads |-> FALSE]
    /\ prevFailed = [t \in Threads |-> FALSE]
    /\ cacheGen = 0
    /\ ownGen = [t \in Threads |-> 0]

\* every thread may call
Init == InitWith(Threads)

\* only the constructing thread calls
InitSingle == InitWith({1})

Single == Cardinality(callers) = 1

\* ---------------------------------------------------------------- actions

\* time passes
Tick ==
    /\ now < MaxTime
    /\ now' = now + 1
    /\ UNCHANGED <<initKind, constructed, success_init, last_results, lock,
                   lastRefreshInstant, pc, inInit, gens, outcome, nameRes, nameDue,
                   hist>>

\* __init__ up to its call of _update_info: the cache is emptied, the import
\* and the login are tried, the lock is made; a failure of either leaves
\* success_init False and the constructor returns.  Otherwise _update_info
\* is called: never refreshed, so the throttle lets the call through
Construct ==
    /\ pc[1] = "new"
    /\ constructed = "no"
    /\ last_results' = <<>>
    /\ success_init' = InitSucceeds(initKind)
    /\ lock' = NoThread
    /\ IF CtorRefreshes(success_init') /\ ~EarlyReturn(success_init')
       THEN /\ inInit' = TRUE
            /\ pc' = [pc EXCEPT ![1] = "acquire"]
            /\ UNCHANGED constructed
       ELSE /\ inInit' = FALSE
            /\ pc' = [pc EXCEPT ![1] = "idle"]
            /\ constructed' = "yes"
    /\ UNCHANGED <<now, initKind, lastRefreshInstant, gens, outcome, nameRes,
                   nameDue, hist>>

\* scan_devices is called: the throttle of _update_info is asked, then the
\* method's own `if not self.success_init: return`
ScanDevices(t) ==
    /\ constructed = "yes"
    /\ t \in callers
    /\ pc[t] = "idle"
    /\ calls < MaxCalls
    /\ pc' = [pc EXCEPT ![t] =
                IF ~ThrottleDue(lastRefreshInstant, now) THEN "filter"
                ELSE IF EarlyReturn(success_init) THEN "filter"
                ELSE "acquire"]
    /\ outcome' = [outcome EXCEPT ![t] = "running"]
    /\ snap' = [snap EXCEPT ![t] = <<>>]
    /\ idx' = [idx EXCEPT ![t] = 0]
    /\ out' = [out EXCEPT ![t] = <<>>]
    /\ callStart' = IF Single THEN <<now>> ELSE callStart
    /\ pairN' = IF Single /\ callStart # <<>>
                   /\ now - callStart[1] < MIN_TIME_BETWEEN_SCANS
                THEN callN[t] ELSE 0
    /\ callN' = [callN EXCEPT ![t] = 0]
    /\ dueAtStart' = [dueAtStart EXCEPT ![t] =
                        /\ success_init
                        /\ lastRefreshInstant # NeverRefreshed
                        /\ now - lastRefreshInstant[1] >= MIN_TIME_BETWEEN_SCANS]
    /\ prevFailed' = [prevFailed EXCEPT ![t] = (outcome[t] = "raised")]
    /\ nameRes' = [nameRes EXCEPT ![t] = NoLookup]
    /\ nameDue' = [nameDue EXCEPT ![t] = FALSE]
    /\ UNCHANGED <<now, initKind, constructed, success_init, last_results, lock,
                   lastRefreshInstant, inInit, calls, lastInvoke, lastPayload,
                   callers, cacheGen, ownGen>>

\* `with self.lock:` is entered and get_clients is invoked
Acquire(t) ==
    /\ pc[t] = "acquire"
    /\ CanEnter(lock)
    /\ lock' = t
    /\ pc' = [pc EXCEPT ![t] = "call"]
    /\ calls' = Invoke(calls)
    /\ callN' = [callN EXCEPT ![t] = Invoke(callN[t])]
    /\ lastInvoke' = <<now>>
    /\ UNCHANGED <<now, initKind, constructed, success_init, last_results,
                   lastRefreshInstant, inInit, gens, outcome, nameRes, nameDue,
                   lastPayload, callers, callStart, pairN, dueAtStart, prevFailed,
                   cacheGen, ownGen>>

\* get_clients answers r: the cache is replaced and the lock released
GetClientsReturn(t, r) ==
    /\ pc[t] = "call"
    /\ lock = t
    /\ r.kind # "raise"
    /\ last_results' = UpdateResults(last_results, r)
    /\ lock' = LockAfterBlock(t, r)
    /\ pc' = [pc EXCEPT ![t] = "stamp"]
    /\ lastPayload' = r
    /\ cacheGen' = calls
    /\ ownGen' = [ownGen EXCEPT ![t] = IF inInit /\ t = 1 THEN 0 ELSE calls]
    /\ UNCHANGED <<now, initKind, constructed, success_init, lastRefreshInstant,
                   inInit, gens, outcome, nameRes, nameDue, calls, lastInvoke,
                   callers,
                   callStart, callN, pairN, dueAtStart, prevFailed>>

\* get_clients raises: the lock is released, the exception leaves
\* _update_info, its throttle and scan_devices (or __init__, and then there
\* is no scanner)
GetClientsRaise(t) ==
    /\ pc[t] = "call"
    /\ lock = t
    /\ last_results' = UpdateResults(last_results, RaiseResult)
    /\ lock' = LockAfterBlock(t, RaiseResult)
    /\ IF inInit /\ t = 1
       THEN /\ constructed' = "raised"
            /\ pc' = [pc EXCEPT ![t] = "dead"]
            /\ inInit' = FALSE
            /\ UNCHANGED outcome
       ELSE /\ pc' = [pc EXCEPT ![t] = "idle"]
            /\ outcome' = [outcome EXCEPT ![t] = "raised"]
            /\ UNCHANGED <<constructed, inInit>>
    /\ lastPayload' = RaiseResult
    /\ UNCHANGED <<now, initKind, success_init, lastRefreshInstant, gens,
                   nameRes, nameDue, calls, lastInvoke, callers, callStart, callN,
                   pairN, dueAtStart, prevFailed, cacheGen, ownGen>>

\* _update_info returned from its refresh: the throttle records the instant
ThrottleStamp(t) ==
    /\ pc[t] = "stamp"
    /\ lastRefreshInstant' = <<now>>
    /\ IF inInit /\ t = 1
       THEN /\ inInit' = FALSE
            /\ constructed' = "yes"
            /\ pc' = [pc EXCEPT ![t] = "idle"]
       ELSE /\ pc' = [pc EXCEPT ![t] = "filter"]
            /\ UNCHANGED <<inInit, constructed>>
    /\ UNCHANGED <<now, initKind, success_init, last_results, lock, gens,
                   outcome, nameRes, nameDue, hist>>

\* scan_devices returns its generator: self.last_results is read once, now
ScanReturn(t) ==
    /\ pc[t] = "filter"
    /\ snap' = [snap EXCEPT ![t] = last_results]
    /\ idx' = [idx EXCEPT ![t] = 0]
    /\ out' = [out EXCEPT ![t] = <<>>]
    /\ outcome' = [outcome EXCEPT ![t] = "returned"]
    /\ pc' = [pc EXCEPT ![t] = IF Len(last_results) = 0 THEN "idle" ELSE "consume"]
    /\ ownGen' = [ownGen EXCEPT ![t] = 0]
    /\ UNCHANGED <<now, initKind, constructed, success_init, last_results, lock,
                   lastRefreshInstant, inInit, nameRes, nameDue, calls,
                   lastInvoke, lastPayload, callers, callStart, callN, pairN,
                   dueAtStart, prevFailed, cacheGen>>

\* the caller takes the generator one step on: the next record of the list
\* is tested against time() as it is now
GenNext(t) ==
    /\ pc[t] = "consume"
    /\ idx[t] < Len(GenSource(snap[t], last_results))
    /\ LET d == GenSource(snap[t], last_results)[idx[t] + 1]
           last == idx[t] + 1 = Len(GenSource(snap[t], last_results))
       IN  /\ out' = [out EXCEPT ![t] =
                        IF IsPresent(d, now) THEN Append(out[t], d.mac) ELSE out[t]]
           /\ idx' = [idx EXCEPT ![t] = idx[t] + 1]
           /\ pc' = [pc EXCEPT ![t] = IF last THEN "idle" ELSE "consume"]
    /\ UNCHANGED <<now, initKind, constructed, success_init, last_results, lock,
                   lastRefreshInstant, inInit, snap, outcome, nameRes, nameDue,
                   hist>>

\* get_device_name(mac): the thread now holds the result of this call and no
\* longer that of its scan_devices before
GetDeviceName(t, mac) ==
    /\ constructed = "yes"
    /\ t \in callers
    /\ pc[t] = "idle"
    /\ UNCHANGED <<prog, lastInvoke, lastPayload, callers, cacheGen, ownGen>>
    /\ outcome' = [outcome EXCEPT ![t] = "named"]
    /\ nameDue' = [nameDue EXCEPT ![t] = ThrottleDue(lastRefreshInstant, now)]
    /\ nameRes' = [nameRes EXCEPT ![t] = FirstName(last_results, mac)]
    /\ calls' = LookupCalls(calls)
    /\ snap' = [snap EXCEPT ![t] = <<>>]
    /\ idx' = [idx EXCEPT ![t] = 0]
    /\ out' = [out EXCEPT ![t] = <<>>]
    /\ callStart' = <<>>
    /\ pairN' = 0
    /\ callN' = [callN EXCEPT ![t] = 0]
    /\ dueAtStart' = [dueAtStart EXCEPT ![t] = FALSE]
    /\ prevFailed' = [prevFailed EXCEPT ![t] = FALSE]

Next ==
    \/ Tick
    \/ Construct
    \/ \E t \in Threads : ScanDevices(t)
    \/ \E t \in Threads : Acquire(t)
    \/ \E t \in Threads : \E r \in Payloads(now, calls) : GetClientsReturn(t, r)
    \/ \E t \in Threads : GetClientsRaise(t)
    \/ \E t \in Threads : ThrottleStamp(t)
    \/ \E t \in Threads : ScanReturn(t)
    \/ \E t \in Threads : GenNext(t)
    \/ \E t \in Threads : \E mac \in Macs : GetDeviceName(t, mac)

Spec == Init /\ [][Next]_vars

\* the scanner with a single caller
SpecSingle == InitSingle /\ [][Next]_vars

TypeOK ==
    /\ now \in 0..MaxTime
    /\ constructed \in {"no", "yes", "raised"}
    /\ success_init \in BOOLEAN
    /\ lock \in Threads \cup {NoThread}
    /\ \A t \in Threads : callN[t] \in 0..1

\* ----------------------------------------------------------------- claims

\* the sequence an answer of get_clients stands for
Normalised(r) == IF r.kind = "list" THEN r.items ELSE <<>>

\* thread t has made a scan_devices call and that call has ended
Finished(t) == outcome[t] \in {"returned", "raised"}

\* C1: with a single caller, two consecutive scan_devices calls that begin
\* less than 5 seconds apart invoke get_clients at most once between them.
C1_PairInvokesAtMostOnce ==
    Single => pairN + callN[1] <= 1

\* C2: any two invocations of get_clients, by whatever threads and however
\* they end, are at least MIN_TIME_BETWEEN_SCANS apart.
C2_InvocationsApart ==
    [][calls' # calls =>
          \/ lastInvoke = <<>>
          \/ now - lastInvoke[1] >= 5]_vars

\* C3: a scan_devices call on a ready scanner that begins 5 seconds or more
\* after the last successful refresh (the instant the throttle recorded for
\* it) invokes get_clients exactly once, and no scan_devices call invokes it
\* more than once.
C3_DueScanInvokesOnce ==
    \A t \in Threads :
        /\ outcome[t] # "none" => callN[t] <= 1
        /\ Finished(t) /\ dueAtStart[t] => callN[t] = 1

\* a call that began exactly 5 seconds after the constructor's refresh has
\* returned after one invocation
C3_Witness ==
    \E t \in Threads :
        /\ dueAtStart[t] /\ outcome[t] = "returned" /\ callN[t] = 1
        /\ calls = 2 /\ now = 5

\* C4: when get_clients raises, the cache is what it was and the caller
\* (scan_devices, or __init__) gets the exception; when a later get_clients
\* answers, the cache is that answer.
C4_FailureKeepsCache ==
    [][\A t \in Threads :
          pc[t] = "call" /\ pc'[t] # "call" =>
             IF lastPayload'.kind = "raise"
             THEN /\ last_results' = last_results
                  /\ IF inInit /\ t = 1
                     THEN constructed' = "raised" /\ pc'[t] = "dead"
                     ELSE outcome'[t] = "raised" /\ pc'[t] = "idle"
             ELSE /\ last_results' = Normalised(lastPayload')
                  /\ outcome'[t] # "raised"]_vars

\* a thread whose scan_devices raised has called again, and that call's
\* refresh has replaced the cache with the two records it got
C4_Witness ==
    \E t \in Threads :
        /\ prevFailed[t] /\ outcome[t] = "returned" /\ callN[t] = 1
        /\ lastPayload.kind = "list" /\ Len(lastPayload.items) = 2
        /\ last_results = lastPayload.items

\* the records of s all come from one invocation of get_clients
OneGeneration(s) == \A i, j \in 1..Len(s) : s[i].gen = s[j].gen

\* C5: the list a scan_devices result is drawn from, and the cache itself,
\* hold records of one refresh only, whatever the threads do.
C5_OneGenerationPerResult ==
    /\ OneGeneration(last_results)
    /\ \A t \in Threads : OneGeneration(snap[t])

\* a thread is half way through a two-record result of the first refresh
\* while another thread's refresh is in flight
C5_Witness ==
    \E t, u \in Threads :
        /\ pc[t] = "consume" /\ idx[t] = 1 /\ Len(snap[t]) = 2
        /\ pc[u] = "call" /\ calls = 2

\* C6: on a scanner whose construction failed, success_init is False and
\* every scan_devices result is empty.
C6_UnusableScansEmpty ==
    initKind # "ok" /\ constructed = "yes" =>
        /\ ~success_init
        /\ \A t \in Threads : snap[t] = <<>> /\ out[t] = <<>> /\ pc[t] # "consume"

\* both threads have had scan_devices return on a scanner whose login failed,
\* more than 5 seconds after construction
C6_Witness ==
    /\ initKind = "auth_fail" /\ constructed = "yes"
    /\ \A t \in Threads : outcome[t] = "returned" /\ pc[t] = "idle"
    /\ now > 5

\* C7: when the import or the login fails the constructor returns normally,
\* and from then on success_init stays False, get_clients is never invoked,
\* the cache stays empty, nothing raises and every name lookup finds nothing.
C7_InitFailureIsPermanent ==
    initKind # "ok" =>
        /\ constructed # "raised"
        /\ pc[1] # "new" => constructed = "yes"
        /\ ~success_init
        /\ calls = 0
        /\ last_results = <<>>
        /\ lock = NoThread
        /\ \A t \in Threads : nameRes[t] \in {NoLookup, NotFound}
        /\ \A t \in Threads : outcome[t] # "raised" /\ pc[t] \in {"new", "idle", "filter"}

\* the import failed, the constructor has returned, and later both threads
\* have called scan_devices
C7_Witness ==
    /\ initKind = "import_fail" /\ constructed = "yes"
    /\ outcome[1] = "returned" /\ outcome[2] = "returned"
    /\ now >= 5

\* C8: each step of a scan_devices result appends the MAC of the next cached
\* record exactly when its last_seen is greater than time() - 10, and skips
\* the record otherwise.
C8_FilterIsStrict ==
    [][\A t \in Threads :
          pc[t] = "consume" /\ idx'[t] = idx[t] + 1 =>
             LET d == snap[t][idx[t] + 1]
             IN  /\ snap'[t] = snap[t]
                 /\ out'[t] = IF d.last_seen > now - 10
                              THEN out[t] \o <<d.mac>>
                              ELSE out[t]]_vars

\* of [A seen 3 s ago, B seen 15 s ago] exactly A has been produced
C8_Witness ==
    \E t \in Threads :
        /\ pc[t] = "idle" /\ outcome[t] = "returned"
        /\ Len(snap[t]) = 2 /\ idx[t] = 2
        /\ snap[t][1].mac = "A" /\ snap[t][1].last_seen = now - 3
        /\ snap[t][2].mac = "B" /\ snap[t][2].last_seen = now - 15
        /\ out[t] = <<"A">>

\* C9: a refresh that failed leaves success_init True and the lock free; the
\* thread's next scan_devices, if it begins 5 seconds or more after the last
\* refresh, invokes get_clients again, and its answer becomes the cache.
C9_FailureDoesNotDisable ==
    \A t \in Threads :
        /\ outcome[t] = "raised" /\ constructed = "yes" =>
              success_init /\ lock # t
        /\ prevFailed[t] /\ dueAtStart[t] /\ outcome[t] = "returned" =>
              callN[t] = 1
        /\ prevFailed[t] /\ pc[t] = "stamp" /\ lastPayload.kind # "raise" =>
              last_results = Normalised(lastPayload)

\* after a scan_devices that raised, the same thread's next call has
\* refreshed the cache
C9_Witness ==
    \E t \in Threads :
        /\ prevFailed[t] /\ dueAtStart[t] /\ pc[t] = "stamp" /\ callN[t] = 1
        /\ success_init
        /\ last_results # <<>> /\ last_results = lastPayload.items

\* C10: when the login succeeds the constructor returns with success_init
\* True, exactly one get_clients invocation made and its answer as the
\* cache; a scan_devices call invokes get_clients only if it began 5 seconds
\* or more after the last refresh, so not within 5 seconds of construction.
C10_ConstructorRefreshesOnce ==
    initKind = "ok" /\ constructed = "yes" =>
        /\ success_init
        /\ calls >= 1
        /\ (\A t \in Threads : outcome[t] = "none") => calls = 1
        /\ calls = 1 =>
              /\ lastPayload.kind # "raise"
              /\ last_results = Normalised(lastPayload)
              /\ lastRefreshInstant # NeverRefreshed
        /\ \A t \in Threads :
              outcome[t] # "none" /\ callN[t] >= 1 => dueAtStart[t]

\* a scan_devices call made within 5 seconds of construction has been
\* answered from the constructor's refresh
C10_Witness ==
    /\ initKind = "ok" /\ constructed = "yes" /\ calls = 1
    /\ now < 5
    /\ \E t \in Threads :
          /\ outcome[t] = "returned" /\ callN[t] = 0 /\ pc[t] = "idle"
          /\ Len(last_results) = 2 /\ snap[t] = last_results
          /\ out[t] = <<"A">>

\* the place in the cache of the first record with this MAC, 0 if none
FirstMatch(mac) ==
    LET hits == {i \in 1..Len(last_results) : last_results[i].mac = mac}
    IN  IF hits = {} THEN 0 ELSE CHOOSE i \in hits : \A j \in hits : i <= j

\* C11: get_device_name(mac) gives the name of the first cached record with
\* that MAC, if the record has one, whatever the record's last_seen.
C11_NameIgnoresStaleness ==
    [][\A t \in Threads : \A mac \in Macs :
          GetDeviceName(t, mac) /\ FirstMatch(mac) > 0
             /\ last_results[FirstMatch(mac)].name # AbsentName =>
                nameRes'[t] = last_results[FirstMatch(mac)].name]_vars

\* only the constructor has refreshed, B was 15 s old in its answer; one
\* thread's scan has left B out and the other has been told B's name
C11_Witness ==
    \E t, u \in Threads :
        /\ calls = 1 /\ Len(last_results) = 2
        /\ last_results[2].mac = "B" /\ last_results[2].last_seen <= now - 10
        /\ outcome[t] = "named" /\ nameRes[t] = "Bob"
        /\ outcome[u] = "returned" /\ idx[u] = 2 /\ out[u] = <<"A">>

\* C12: get_device_name with a MAC that no cached record has gives None and
\* does not raise.
C12_MissGivesNotFound ==
    [][\A t \in Threads : \A mac \in Macs :
          GetDeviceName(t, mac) /\ FirstMatch(mac) = 0 =>
             nameRes'[t] = NotFound]_vars

\* only the constructor has refreshed and the cache is not empty; a lookup
\* has given None, so for a MAC that is not in the cache
C12_Witness ==
    \E t \in Threads :
        /\ calls = 1 /\ last_results # <<>>
        /\ outcome[t] = "named" /\ nameRes[t] = NotFound

\* C13: get_device_name invokes nothing upstream and leaves the cache, the
\* last-refresh instant, success_init and the lock as they are.
C13_LookupChangesNothing ==
    [][\A t \in Threads : \A mac \in Macs :
          GetDeviceName(t, mac) =>
             /\ calls' = calls
             /\ last_results' = last_results
             /\ lastRefreshInstant' = lastRefreshInstant
             /\ success_init' = success_init
             /\ lock' = lock
             /\ \A u \in Threads : u # t => pc'[u] = pc[u]]_vars

\* a lookup was made on a ready scanner when a refresh was due, and still
\* only the constructor has called get_clients
C13_Witness ==
    \E t \in Threads :
        /\ outcome[t] = "named" /\ nameDue[t]
        /\ success_init /\ calls = 1
        /\ lastRefreshInstant # NeverRefreshed

\* C14: the last-refresh instant never decreases, and every change of it and
\* of the cache is made by a thread that holds the lock, the instant together
\* with the cache replacement of the same refresh.
C14_StampUnderLock ==
    [][/\ (lastRefreshInstant' # lastRefreshInstant =>
             /\ \/ lastRefreshInstant = NeverRefreshed
                \/ lastRefreshInstant'[1] >= lastRefreshInstant[1]
             /\ lock # NoThread
             /\ pc[lock] = "call" /\ pc'[lock] # "call")
       /\ (last_results' # last_results =>
             /\ lock # NoThread
             /\ pc[lock] = "call" /\ pc'[lock] # "call")]_vars

\* C15: get_clients is invoked and the cache replaced only by the thread
\* that holds the lock, and at most one thread is inside get_clients.
C15_RefreshUnderLock ==
    [][/\ \A t \in Threads : pc'[t] = "call" => lock' = t
       /\ (calls' # calls =>
             /\ lock = NoThread /\ lock' # NoThread
             /\ pc'[lock'] = "call")
       /\ (last_results' # last_results =>
             /\ lock # NoThread
             /\ pc[lock] = "call")]_vars

\* one thread is inside get_clients while another waits for the lock
C15_Witness ==
    \E t, u \in Threads :
        /\ pc[t] = "call" /\ lock = t
        /\ pc[u] = "acquire"

\* C16: a scan_devices call that refreshed reads, for the sequence it
\* returns, the cache as its own refresh left it.
C16_ReadsOwnRefresh ==
    [][\A t \in Threads :
          ownGen[t] > 0 /\ pc[t] = "filter" /\ pc'[t] # "filter" =>
             /\ cacheGen = ownGen[t]
             /\ snap'[t] = last_results]_vars

\* C17: after a get_clients that returned, the cache is exactly what it
\* answered, empty for None and for the empty list, and holds no record of
\* an earlier answer.
C17_CacheIsLastAnswer ==
    /\ lastPayload.kind # "raise" => last_results = Normalised(lastPayload)
    /\ \A i \in 1..Len(last_results) : last_results[i].gen = cacheGen

\* get_clients answered None after the refresh before it had filled the
\* cache, a generator over that cache still being consumed: the cache is
\* empty
C17_Witness ==
    /\ cacheGen >= 2
    /\ lastPayload = NoneResult
    /\ last_results = <<>>
    /\ \E u \in Threads :
          /\ pc[u] = "consume"
          /\ snap[u][1].gen = cacheGen - 1

\* C18: the sequence scan_devices returned is computed from the cache as it
\* was when scan_devices returned: whatever replaces the cache meanwhile,
\* the generator visits the records of that list, each once and in order.
C18_SequenceOfSnapshot ==
    \A t \in Threads :
        /\ idx[t] <= Len(snap[t])
        /\ Len(out[t]) <= idx[t]
        /\ pc[t] = "consume" => idx[t] < Len(snap[t])
        /\ \A i \in 1..Len(out[t]) :
              \E j \in 1..idx[t] : snap[t][j].mac = out[t][i]

\* a generator has produced its first MAC, and the cache has since been
\* replaced by another non-empty list
C18_Witness ==
    \E t \in Threads :
        /\ pc[t] = "consume"
        /\ idx[t] = 1 /\ out[t] = <<"A">>
        /\ last_results # <<>>
        /\ last_results[1].gen > snap[t][1].gen

\* C19: the lock is held only by a thread inside the refresh: it is free
\* whenever no thread is, also after get_clients raised.
C19_LockOnlyInRefresh ==
    /\ lock # NoThread => pc[lock] = "call"
    /\ (\A t \in Threads : pc[t] # "call") => lock = NoThread

\* a thread whose scan_devices before raised inside get_clients has entered
\* the lock again
C19_Witness ==
    \E t \in Threads :
        /\ prevFailed[t]
        /\ pc[t] = "call" /\ lock = t

\* C20: no get_device_name call raises, also when the record with the MAC
\* has no name.
C20_LookupNeverRaises ==
    \A t \in Threads : nameRes[t] # KeyErrorRaised
====
